---- MODULE Spec2Model ----
(***************************************************************************)
(* The interactive terminal demo of the Shuriken CLI documentation site:   *)
(* the TerminalPreview component of src/src/components/Features.tsx.        *)
(*                                                                         *)
(* A JavaScript string is modelled as a sequence of characters, each       *)
(* character a one-character TLA+ string; a character outside ASCII is     *)
(* written by its code point ("U+2705").  One action is one run of the     *)
(* JavaScript event loop: a DOM event handler, or the continuation of an   *)
(* async function from the timer that resumes it up to its next state      *)
(* update.                                                                 *)
(***************************************************************************)
EXTENDS Integers, Sequences, FiniteSets, TLC

\* ------------------------------------------------------------------------
\* Bounds of the model
\* ------------------------------------------------------------------------

\* the number of commands the user submits in one behaviour
MaxHistory == 3

\* ------------------------------------------------------------------------
\* Strings
\* ------------------------------------------------------------------------

\* a string literal as its sequence of characters
Chars(s) == [i \in 1..Len(s) |-> SubSeq(s, i, i)]

\* n times the character c
Rep(c, n) == [i \in 1..n |-> c]

\* the characters of the regular expression class \s, which are also the
\* characters String.prototype.trim removes
WhiteSpace == {" ", "\t", "\n", "\r", "\f", "U+000B", "U+00A0", "U+FEFF"}

IsSpace(c) == c \in WhiteSpace

UpperCase == Chars("ABCDEFGHIJKLMNOPQRSTUVWXYZ")
LowerCase == Chars("abcdefghijklmnopqrstuvwxyz")

\* String.prototype.toLowerCase, one character
LowerChar(c) ==
    IF \E i \in 1..Len(UpperCase) : UpperCase[i] = c
    THEN LowerCase[CHOOSE i \in 1..Len(UpperCase) : UpperCase[i] = c]
    ELSE c

\* String.prototype.toLowerCase
ToLowerCase(s) == [i \in 1..Len(s) |-> LowerChar(s[i])]

\* String.prototype.trim
Trim(s) ==
    LET kept == {i \in 1..Len(s) : ~IsSpace(s[i])}
    IN  IF kept = {} THEN <<>>
        ELSE LET first == CHOOSE i \in kept : \A j \in kept : i <= j
                 last  == CHOOSE i \in kept : \A j \in kept : j <= i
             IN  SubSeq(s, first, last)

\* s.replace(/\s+/g, ' '): every maximal run of whitespace becomes one space
RECURSIVE CollapseWhiteSpace(_)
CollapseWhiteSpace(s) ==
    IF s = <<>> THEN <<>>
    ELSE IF IsSpace(Head(s))
         THEN LET rest == Tail(s)
                  run  == {i \in 1..Len(rest) : \A j \in 1..i : IsSpace(rest[j])}
              IN  <<" ">> \o CollapseWhiteSpace(SubSeq(rest, Cardinality(run) + 1, Len(rest)))
         ELSE <<Head(s)>> \o CollapseWhiteSpace(Tail(s))

\* String.prototype.startsWith
StartsWith(s, prefix) ==
    /\ Len(prefix) <= Len(s)
    /\ SubSeq(s, 1, Len(prefix)) = prefix

\* Split as s.split(/\s/) would do it: cut at every whitespace character
SplitAtWhiteSpace(s) ==
    LET spaces == {i \in 1..Len(s) : IsSpace(s[i])}
        n == Cardinality(spaces)
        pos(k) == IF k = 0 THEN 0
                  ELSE IF k = n + 1 THEN Len(s) + 1
                  ELSE CHOOSE i \in spaces : Cardinality({j \in spaces : j < i}) = k - 1
    IN  [k \in 1..(n + 1) |-> SubSeq(s, pos(k - 1) + 1, pos(k) - 1)]

\* s.split(' '): the pieces of s between single spaces, empty pieces kept
Split(s) ==
    LET spaces == {i \in 1..Len(s) : s[i] = " "}
        n == Cardinality(spaces)
        \* the position of the k-th space; 0 and Len(s) + 1 bound the string
        pos(k) == IF k = 0 THEN 0
                  ELSE IF k = n + 1 THEN Len(s) + 1
                  ELSE CHOOSE i \in spaces : Cardinality({j \in spaces : j < i}) = k - 1
    IN  [k \in 1..(n + 1) |-> SubSeq(s, pos(k - 1) + 1, pos(k) - 1)]

\* ------------------------------------------------------------------------
\* DEMO_COMMANDS
\* ------------------------------------------------------------------------

\* src/src/components/Features.tsx:143-161  (output of "help")
HelpOutput ==
    <<"U+1F977">> \o Chars(" SHURIKEN CLI ") \o <<"U+2014">> \o Chars(" Available Packages\n")
      \o Chars("\n")
      \o <<"U+2500", "U+2500">> \o Chars(" UI-KIT ") \o Rep("U+2500", 21) \o Chars("\n")
      \o Chars("  setup       Install and configure UI components\n")
      \o Chars("  update      Migrate UI components to newer versions\n")
      \o Chars("  component   Generate a new UI component\n")
      \o Chars("\n")
      \o <<"U+2500", "U+2500">> \o Chars(" JARVIS ") \o Rep("U+2500", 21) \o Chars("\n")
      \o Chars("  setup       Install and configure AI tools\n")
      \o Chars("  component   Generate a React component template\n")
      \o Chars("  deploy      Deploy application to production\n")
      \o Chars("\n")
      \o <<"U+2500", "U+2500">> \o Chars(" BACKEND-TOOLS ") \o Rep("U+2500", 14) \o Chars("\n")
      \o Chars("  setup       Setup backend development environment\n")
      \o Chars("  migrate     Run database migrations\n")
      \o Chars("  seed        Seed database with test data\n")
      \o Chars("\n")
      \o Chars("Type 'shuriken <package> <command>' to run a command\n")
      \o Chars("Type 'clear' to clear the terminal")

\* src/src/components/Features.tsx:165-176  (output of "ui-kit setup")
UiKitSetupOutput ==
    <<"U+1F3AF">> \o Chars(" Setting up UI-KIT package...\n")
      \o Chars("\n")
      \o <<"U+2705">> \o Chars(" Installing dependencies...\n")
      \o <<"U+2705">> \o Chars(" Configuring Tailwind CSS...\n")
      \o <<"U+2705">> \o Chars(" Setting up component library...\n")
      \o <<"U+2705">> \o Chars(" Creating example components...\n")
      \o <<"U+2705">> \o Chars(" Running initial build...\n")
      \o Chars("\n")
      \o <<"U+1F680">> \o Chars(" UI-KIT setup completed successfully!\n")
      \o Chars("   \n")
      \o <<"U+1F4C1">> \o Chars(" Components available in: ./packages/ui-kit/components\n")
      \o <<"U+1F4D6">> \o Chars(" Documentation: ./packages/ui-kit/README.md")

\* src/src/components/Features.tsx:180-188  (output of "jarvis component button")
JarvisComponentButtonOutput ==
    <<"U+1F916">> \o Chars(" Generating React component: Button\n")
      \o Chars("\n")
      \o <<"U+2705">> \o Chars(" Created ./src/components/Button/Button.tsx\n")
      \o <<"U+2705">> \o Chars(" Created ./src/components/Button/Button.module.css\n")
      \o <<"U+2705">> \o Chars(" Created ./src/components/Button/Button.test.tsx\n")
      \o <<"U+2705">> \o Chars(" Created ./src/components/Button/index.ts\n")
      \o <<"U+2705">> \o Chars(" Updated ./src/components/index.ts\n")
      \o Chars("\n")
      \o <<"U+1F389">> \o Chars(" Component 'Button' generated successfully!")

\* src/src/components/Features.tsx:192-200  (output of "backend-tools migrate")
BackendToolsMigrateOutput ==
    <<"U+26A1">> \o Chars(" Running database migrations...\n")
      \o Chars("\n")
      \o <<"U+2705">> \o Chars(" Migration 001_create_users_table.sql\n")
      \o <<"U+2705">> \o Chars(" Migration 002_create_posts_table.sql  \n")
      \o <<"U+2705">> \o Chars(" Migration 003_add_user_roles.sql\n")
      \o <<"U+2705">> \o Chars(" Migration 004_create_sessions_table.sql\n")
      \o Chars("\n")
      \o <<"U+1F3AF">> \o Chars(" All migrations completed successfully!\n")
      \o <<"U+1F4CA">> \o Chars(" Database schema is up to date")

\* src/src/components/Features.tsx:204-205  (output of "version")
VersionOutput ==
    <<"U+1F977">> \o Chars(" Shuriken CLI v2.1.0\n")
      \o Chars("Built with ") \o <<"U+2764", "U+FE0F">> \o Chars(" for ninja developers")

\* DEMO_COMMANDS with a sixth entry whose trigger, "ui-kit", begins another
DEMO_COMMANDS_Overlapping ==
    << [key |-> Chars("help"),                    output |-> HelpOutput,                  delay |-> 50],
       [key |-> Chars("ui-kit setup"),            output |-> UiKitSetupOutput,            delay |-> 80],
       [key |-> Chars("jarvis component button"), output |-> JarvisComponentButtonOutput, delay |-> 60],
       [key |-> Chars("backend-tools migrate"),   output |-> BackendToolsMigrateOutput,   delay |-> 70],
       [key |-> Chars("version"),                 output |-> VersionOutput,               delay |-> 30],
       [key |-> Chars("ui-kit"),                  output |-> VersionOutput,               delay |-> 30] >>

\* Object.entries(DEMO_COMMANDS): the entries in declaration order (no key is
\* an integer index, so property order is insertion order)
DEMO_COMMANDS ==
    << [key |-> Chars("help"),                    output |-> HelpOutput,                  delay |-> 50],
       [key |-> Chars("ui-kit setup"),            output |-> UiKitSetupOutput,            delay |-> 80],
       [key |-> Chars("jarvis component button"), output |-> JarvisComponentButtonOutput, delay |-> 60],
       [key |-> Chars("backend-tools migrate"),   output |-> BackendToolsMigrateOutput,   delay |-> 70],
       [key |-> Chars("version"),                 output |-> VersionOutput,               delay |-> 30] >>

SUGGESTIONS ==
    << Chars("help"), Chars("ui-kit setup"), Chars("jarvis component button"),
       Chars("backend-tools migrate"), Chars("version"), Chars("clear") >>

\* ------------------------------------------------------------------------
\* State
\* ------------------------------------------------------------------------

VARIABLES
    lines,           \* useState<TerminalLine[]>: the transcript
    currentInput,    \* useState(''): the input buffer
    isProcessing,    \* useState(false)
    commandHistory,  \* useState<string[]>([])
    historyIndex,    \* useState(-1): the history cursor, -1 when inactive
    tasks,           \* the executeCommand calls that have started and not returned
    clock            \* milliseconds since the component was mounted

vars == <<lines, currentInput, isProcessing, commandHistory, historyIndex, tasks, clock>>

\* the pause of executeCommand before it answers, in milliseconds
ProcessingDelay == 500

\* formatTime(): the wall clock at a resolution of one second
FormatTime(ms) == (ms \div 1000) % 86400

\* the strings the user types into the input element
TypedInputs ==
    { Chars("  "),
      Chars(" HelpMe"),
      Chars("clear  Now"),
      Chars("CLEAR ") }

\* the suggestion buttons the user clicks
ClickedSuggestions == {Chars("version"), Chars("clear")}

InitialLines ==
    << [type |-> "info",
        content |-> <<"U+1F977">> \o Chars(" Welcome to Shuriken CLI Interactive Demo"),
        timestamp |-> FormatTime(0)],
       [type |-> "info",
        content |-> Chars("Type \"help\" to see available commands, or try the suggestions below."),
        timestamp |-> FormatTime(0)] >>

Init ==
    /\ lines = InitialLines
    /\ currentInput = <<>>
    /\ isProcessing = FALSE
    /\ commandHistory = <<>>
    /\ historyIndex = -1
    /\ tasks = <<>>
    /\ clock = 0

\* ------------------------------------------------------------------------
\* Transcript updates
\* ------------------------------------------------------------------------

\* AddLine with the new line in place of the transcript, not at its end
AddLineReplacing(prev, type, content, now) ==
    << [type |-> type, content |-> content, timestamp |-> FormatTime(now)] >>

\* AddLine with the new line before the transcript, not after it
AddLinePrepending(prev, type, content, now) ==
    <<[type |-> type, content |-> content, timestamp |-> FormatTime(now)]>> \o prev

\* addLine: the updater appends the line, stamped with the current time
AddLine(prev, type, content, now) ==
    Append(prev, [type |-> type, content |-> content, timestamp |-> FormatTime(now)])

\* typewriterEffect, the first setLines: an empty output line is appended
AppendOutputLine(prev, timestamp) ==
    Append(prev, [type |-> "output", content |-> <<>>, timestamp |-> timestamp])

\* RevealLine with lastIndex one place too early
RevealLineBeforeLast(prev, currentText, timestamp) ==
    LET lastIndex == Len(prev) - 1
    IN  IF lastIndex >= 1
        THEN [prev EXCEPT ![lastIndex] =
                 [type |-> "output", content |-> currentText, timestamp |-> timestamp]]
        ELSE prev

\* typewriterEffect, the setLines of the loop: the last line, if it is an
\* output line, is replaced by the text revealed so far
RevealLine(prev, currentText, timestamp) ==
    LET lastIndex == Len(prev)
    IN  IF lastIndex >= 1 /\ prev[lastIndex].type = "output"
        THEN [prev EXCEPT ![lastIndex] =
                 [type |-> "output", content |-> currentText, timestamp |-> timestamp]]
        ELSE prev

\* NextText without the separating space
NextTextNoSeparator(currentText, words, i) == currentText \o words[i + 1]

\* currentText += (i > 0 ? ' ' : '') + words[i], i counted from 0
NextText(currentText, words, i) ==
    currentText \o (IF i > 0 THEN <<" ">> ELSE <<>>) \o words[i + 1]

\* ------------------------------------------------------------------------
\* The command matcher
\* ------------------------------------------------------------------------

\* TrimmedCommand without the case folding
TrimmedCommandCaseKept(command) == Trim(command)

\* TrimmedCommand cut after its first word
TrimmedCommandFirstWord(command) ==
    LET t == ToLowerCase(Trim(command))
        stops == {j \in 1..Len(t) : IsSpace(t[j])}
    IN  IF stops = {} THEN t
        ELSE SubSeq(t, 1, (CHOOSE j \in stops : \A m \in stops : j <= m) - 1)

\* command.trim().toLowerCase()
TrimmedCommand(command) == ToLowerCase(Trim(command))

\* Normalize without the collapse of whitespace runs
NormalizeTrimOnly(s) == Trim(s)

\* trimmedCommand.replace(/\s+/g, ' ').trim(), and the same for a key
Normalize(s) == Trim(CollapseWhiteSpace(s))

\* KeyMatches with startsWith(normalizedKey), the separating space forgotten
KeyMatchesNoSpace(normalizedCommand, key) ==
    LET normalizedKey == Normalize(key)
    IN  \/ normalizedCommand = normalizedKey
        \/ StartsWith(normalizedCommand, normalizedKey)

\* KeyMatches by equality alone
KeyMatchesExactOnly(normalizedCommand, key) ==
    normalizedCommand = Normalize(key)

\* the predicate handed to find
KeyMatches(normalizedCommand, key) ==
    LET normalizedKey == Normalize(key)
    IN  \/ normalizedCommand = normalizedKey
        \/ StartsWith(normalizedCommand, normalizedKey \o <<" ">>)

\* Array.prototype.find over the entries: the index of the first entry the
\* predicate accepts, 0 for undefined
FindCommand(entries, normalizedCommand) ==
    LET hits == {k \in 1..Len(entries) : KeyMatches(normalizedCommand, entries[k].key)}
    IN  IF hits = {} THEN 0
        ELSE CHOOSE k \in hits : \A j \in hits : k <= j

\* matchedCommand of executeCommand
MatchedCommand(command) ==
    FindCommand(DEMO_COMMANDS, Normalize(TrimmedCommand(command)))

\* text.split(' ') of every entry's output
OutputWords == [k \in 1..Len(DEMO_COMMANDS) |-> Split(DEMO_COMMANDS[k].output)]

\* ------------------------------------------------------------------------
\* executeCommand
\* ------------------------------------------------------------------------

\* no async function is in the middle of a synchronous run, so the browser
\* can dispatch an event
EventLoopIdle == \A k \in 1..Len(tasks) : tasks[k].pc # "loop"

RemoveTask(k) == SubSeq(tasks, 1, k - 1) \o SubSeq(tasks, k + 1, Len(tasks))

\* the end of executeCommand with setIsProcessing(false) forgotten
ReturnStillProcessing(k) ==
    /\ tasks' = RemoveTask(k)
    /\ UNCHANGED isProcessing

\* the end of executeCommand: setIsProcessing(false), and the call returns
ReturnFromExecuteCommand(k) ==
    /\ isProcessing' = FALSE
    /\ tasks' = RemoveTask(k)

\* executeCommand going on with the trimmed, lower-cased command in place of
\* the command as typed
ExecuteCommandNormalized(command) ==
    LET trimmedCommand == TrimmedCommand(command)
    IN  IF trimmedCommand = Chars("clear")
        THEN /\ lines' = << [type |-> "info",
                             content |-> <<"U+1F977">> \o Chars(" Terminal cleared"),
                             timestamp |-> FormatTime(clock)] >>
             /\ UNCHANGED <<isProcessing, commandHistory, historyIndex, tasks>>
        ELSE IF trimmedCommand = <<>>
        THEN UNCHANGED <<lines, isProcessing, commandHistory, historyIndex, tasks>>
        ELSE /\ commandHistory' = Append(commandHistory, trimmedCommand)
             /\ historyIndex' = -1
             /\ lines' = AddLine(lines, "input", Chars("$ shuriken ") \o trimmedCommand, clock)
             /\ isProcessing' = TRUE
             /\ tasks' = Append(tasks,
                    [command |-> trimmedCommand,
                     matchedCommand |-> MatchedCommand(command),
                     pc |-> "delay",
                     i |-> 0,
                     currentText |-> <<>>,
                     timestamp |-> 0])

\* executeCommand with setCommandHistory([command]), the spread of prev
\* forgotten
ExecuteCommandForgetting(command) ==
    LET trimmedCommand == TrimmedCommand(command)
    IN  IF trimmedCommand = Chars("clear")
        THEN /\ lines' = << [type |-> "info",
                             content |-> <<"U+1F977">> \o Chars(" Terminal cleared"),
                             timestamp |-> FormatTime(clock)] >>
             /\ UNCHANGED <<isProcessing, commandHistory, historyIndex, tasks>>
        ELSE IF trimmedCommand = <<>>
        THEN UNCHANGED <<lines, isProcessing, commandHistory, historyIndex, tasks>>
        ELSE /\ commandHistory' = <<command>>
             /\ historyIndex' = -1
             /\ lines' = AddLine(lines, "input", Chars("$ shuriken ") \o command, clock)
             /\ isProcessing' = TRUE
             /\ tasks' = Append(tasks,
                    [command |-> command,
                     matchedCommand |-> MatchedCommand(command),
                     pc |-> "delay",
                     i |-> 0,
                     currentText |-> <<>>,
                     timestamp |-> 0])

\* executeCommand up to its first await
ExecuteCommand(command) ==
    LET trimmedCommand == TrimmedCommand(command)
    IN  IF trimmedCommand = Chars("clear")
        THEN /\ lines' = << [type |-> "info",
                             content |-> <<"U+1F977">> \o Chars(" Terminal cleared"),
                             timestamp |-> FormatTime(clock)] >>
             /\ UNCHANGED <<isProcessing, commandHistory, historyIndex, tasks>>
        ELSE IF trimmedCommand = <<>>
        THEN UNCHANGED <<lines, isProcessing, commandHistory, historyIndex, tasks>>
        ELSE /\ commandHistory' = Append(commandHistory, command)
             /\ historyIndex' = -1
             /\ lines' = AddLine(lines, "input", Chars("$ shuriken ") \o command, clock)
             /\ isProcessing' = TRUE
             /\ tasks' = Append(tasks,
                    [command |-> command,
                     matchedCommand |-> MatchedCommand(command),
                     pc |-> "delay",
                     i |-> 0,
                     currentText |-> <<>>,
                     timestamp |-> 0])

\* the 500 ms timer of executeCommand fires: a matched command starts its
\* typewriterEffect, which appends the empty output line; an unmatched one
\* gets its error line and executeCommand returns
ProcessingTimer(k) ==
    /\ k \in 1..Len(tasks)
    /\ tasks[k].pc = "delay"
    /\ EventLoopIdle
    /\ clock' = clock + ProcessingDelay
    /\ IF tasks[k].matchedCommand # 0
       THEN /\ lines' = AppendOutputLine(lines, FormatTime(clock'))
            /\ tasks' = [tasks EXCEPT ![k].pc = "loop",
                                      ![k].timestamp = FormatTime(clock')]
            /\ UNCHANGED isProcessing
       ELSE /\ lines' = AddLine(lines, "error",
                            <<"U+274C">> \o Chars(" Command not found: ") \o tasks[k].command
                              \o Chars("\nType 'help' to see available commands."),
                            clock')
            /\ ReturnFromExecuteCommand(k)
    /\ UNCHANGED <<currentInput, commandHistory, historyIndex>>

\* typewriterEffect, the first pass of the loop, which runs in the same turn as
\* the append of the empty line: the first word is written and the loop waits
TypewriterFirstWord(k) ==
    /\ k \in 1..Len(tasks)
    /\ tasks[k].pc = "loop"
    /\ LET t == tasks[k]
           text == NextText(t.currentText, OutputWords[t.matchedCommand], t.i)
       IN  /\ lines' = RevealLine(lines, text, t.timestamp)
           /\ tasks' = [tasks EXCEPT ![k].pc = "await", ![k].currentText = text]
    /\ UNCHANGED <<currentInput, isProcessing, commandHistory, historyIndex, clock>>

\* the timer of the loop fires: i++, and either the next word is written and
\* the loop waits again, or the loop ends, typewriterEffect returns and
\* executeCommand sets isProcessing to false
TypewriterTimer(k) ==
    /\ k \in 1..Len(tasks)
    /\ tasks[k].pc = "await"
    /\ EventLoopIdle
    /\ LET t == tasks[k]
           words == OutputWords[t.matchedCommand]
           i == t.i + 1
       IN  /\ clock' = clock + DEMO_COMMANDS[t.matchedCommand].delay
           /\ IF i < Len(words)
              THEN LET text == NextText(t.currentText, words, i)
                   IN  /\ lines' = RevealLine(lines, text, t.timestamp)
                       /\ tasks' = [tasks EXCEPT ![k].i = i, ![k].currentText = text]
                       /\ UNCHANGED isProcessing
              ELSE /\ ReturnFromExecuteCommand(k)
                   /\ UNCHANGED lines
    /\ UNCHANGED <<currentInput, commandHistory, historyIndex>>

\* ------------------------------------------------------------------------
\* Event handlers
\* ------------------------------------------------------------------------

\* AcceptsSubmit without the test of isProcessing
AcceptsSubmitWhileProcessing == Trim(currentInput) # <<>>

\* AcceptsSubmit without the test of currentInput.trim()
AcceptsSubmitBlank == ~isProcessing

\* the guard of the Enter branch of handleKeyDown
AcceptsSubmit == ~isProcessing /\ Trim(currentInput) # <<>>

\* Max without the clamp: the second argument, whatever the first
MaxSecond(a, b) == b

\* Math.max
Max(a, b) == IF a >= b THEN a ELSE b

\* the value an array read outside the array yields
Undefined == <<"undefined">>

\* HistoryEntry reading one place too early
HistoryEntryOffByOne(index) ==
    IF index - 1 \in 0..(Len(commandHistory) - 1)
    THEN commandHistory[index]
    ELSE Undefined

\* commandHistory[index], the index counted from 0
HistoryEntry(index) ==
    IF index \in 0..(Len(commandHistory) - 1)
    THEN commandHistory[index + 1]
    ELSE Undefined

\* PreviousIndex starting one place past the newest entry
PreviousIndexPastEnd ==
    IF historyIndex = -1
    THEN Len(commandHistory)
    ELSE Max(0, historyIndex - 1)

\* newIndex of the ArrowUp branch
PreviousIndex ==
    IF historyIndex = -1
    THEN Len(commandHistory) - 1
    ELSE Max(0, historyIndex - 1)

\* EnterKey without setCurrentInput('')
EnterKeyKeepsInput ==
    IF AcceptsSubmit
    THEN /\ \/ TrimmedCommand(currentInput) = Chars("clear")
            \/ Len(commandHistory) < MaxHistory
         /\ ExecuteCommand(currentInput)
         /\ UNCHANGED currentInput
    ELSE UNCHANGED <<lines, currentInput, isProcessing, commandHistory,
                     historyIndex, tasks>>

\* handleKeyDown, the branch of 'Enter'
EnterKey ==
    IF AcceptsSubmit
    THEN /\ \/ TrimmedCommand(currentInput) = Chars("clear")
            \/ Len(commandHistory) < MaxHistory
         /\ ExecuteCommand(currentInput)
         /\ currentInput' = <<>>
    ELSE UNCHANGED <<lines, currentInput, isProcessing, commandHistory,
                     historyIndex, tasks>>

\* ArrowUpKey that also runs the entry it recalls
ArrowUpKeyRuns ==
    IF Len(commandHistory) > 0 /\ ~isProcessing /\ Len(commandHistory) < MaxHistory
    THEN /\ ExecuteCommand(HistoryEntry(PreviousIndex))
         /\ currentInput' = HistoryEntry(PreviousIndex)
    ELSE UNCHANGED <<lines, currentInput, isProcessing, commandHistory,
                     historyIndex, tasks>>

\* handleKeyDown, the branch of 'ArrowUp'
ArrowUpKey ==
    /\ IF Len(commandHistory) > 0
       THEN LET newIndex == PreviousIndex
            IN  /\ historyIndex' = newIndex
                /\ currentInput' = HistoryEntry(newIndex)
       ELSE UNCHANGED <<historyIndex, currentInput>>
    /\ UNCHANGED <<lines, isProcessing, commandHistory, tasks>>

\* ArrowDownKey with the cursor tested by >= -1
ArrowDownKeyFromInactive ==
    /\ IF historyIndex >= -1
       THEN LET newIndex == historyIndex + 1
            IN  IF newIndex >= Len(commandHistory)
                THEN /\ historyIndex' = -1
                     /\ currentInput' = <<>>
                ELSE /\ historyIndex' = newIndex
                     /\ currentInput' = HistoryEntry(newIndex)
       ELSE UNCHANGED <<historyIndex, currentInput>>
    /\ UNCHANGED <<lines, isProcessing, commandHistory, tasks>>

\* handleKeyDown, the branch of 'ArrowDown'
ArrowDownKey ==
    /\ IF historyIndex > -1
       THEN LET newIndex == historyIndex + 1
            IN  IF newIndex >= Len(commandHistory)
                THEN /\ historyIndex' = -1
                     /\ currentInput' = <<>>
                ELSE /\ historyIndex' = newIndex
                     /\ currentInput' = HistoryEntry(newIndex)
       ELSE UNCHANGED <<historyIndex, currentInput>>
    /\ UNCHANGED <<lines, isProcessing, commandHistory, tasks>>

\* handleKeyDown
HandleKeyDown(key) ==
    /\ EventLoopIdle
    /\ UNCHANGED clock
    /\ IF key = "Enter" THEN EnterKey
       ELSE IF key = "ArrowUp" THEN ArrowUpKey
       ELSE IF key = "ArrowDown" THEN ArrowDownKey
       ELSE UNCHANGED <<lines, currentInput, isProcessing, commandHistory,
                        historyIndex, tasks>>

\* onChange of the input element
HandleChange(value) ==
    /\ EventLoopIdle
    /\ currentInput' = value
    /\ UNCHANGED <<lines, isProcessing, commandHistory, historyIndex, tasks, clock>>

\* HandleSuggestionClick without the test of isProcessing
HandleSuggestionClickWhileProcessing(suggestion) ==
    /\ EventLoopIdle
    /\ currentInput' = suggestion
    /\ UNCHANGED <<lines, isProcessing, commandHistory, historyIndex, tasks, clock>>

\* handleSuggestionClick
HandleSuggestionClick(suggestion) ==
    /\ EventLoopIdle
    /\ IF ~isProcessing
       THEN currentInput' = suggestion
       ELSE UNCHANGED currentInput
    /\ UNCHANGED <<lines, isProcessing, commandHistory, historyIndex, tasks, clock>>

Keys == {"Enter", "ArrowUp", "ArrowDown"}

Next ==
    \/ \E key \in Keys : HandleKeyDown(key)
    \/ \E value \in TypedInputs : HandleChange(value)
    \/ \E n \in 1..Len(SUGGESTIONS) :
          /\ SUGGESTIONS[n] \in ClickedSuggestions
          /\ HandleSuggestionClick(SUGGESTIONS[n])
    \/ \E k \in 1..Len(tasks) : ProcessingTimer(k)
    \/ \E k \in 1..Len(tasks) : TypewriterFirstWord(k)
    \/ \E k \in 1..Len(tasks) : TypewriterTimer(k)

Spec == Init /\ [][Next]_vars

\* a timer that has been set fires, and the continuation of an async function
\* that is ready runs
Fairness ==
    /\ WF_vars(\E k \in 1..Len(tasks) : ProcessingTimer(k))
    /\ WF_vars(\E k \in 1..Len(tasks) : TypewriterFirstWord(k))
    /\ WF_vars(\E k \in 1..Len(tasks) : TypewriterTimer(k))

LiveSpec == Init /\ [][Next]_vars /\ Fairness

\* ------------------------------------------------------------------------
\* One command: the user has typed a line, presses Enter, and the timers run
\* ------------------------------------------------------------------------

\* String.prototype.toUpperCase, for the letters a to z
ToUpperCase(s) ==
    [i \in 1..Len(s) |->
        IF \E j \in 1..Len(LowerCase) : LowerCase[j] = s[i]
        THEN UpperCase[CHOOSE j \in 1..Len(LowerCase) : LowerCase[j] = s[i]]
        ELSE s[i]]

\* s with every space replaced by the whitespace run ws
RECURSIVE Widen(_, _)
Widen(s, ws) ==
    IF s = <<>> THEN <<>>
    ELSE (IF Head(s) = " " THEN ws ELSE <<Head(s)>>) \o Widen(Tail(s), ws)

\* the ways the user types a trigger: padded, in upper case, with wider
\* whitespace between its words, with and without further text
TypedVariants(key) ==
    { pre \o body \o suffix \o post :
        pre \in {<<>>, Chars(" \t")},
        body \in { Widen(key, Chars(" ")), Widen(ToUpperCase(key), Chars(" \t ")) },
        suffix \in {<<>>, Chars(" --verbose"), Chars("me"), Chars("-advanced")},
        post \in {<<>>, Chars("  ")} }

CommandInputs ==
    UNION { TypedVariants(DEMO_COMMANDS[k].key) : k \in 1..Len(DEMO_COMMANDS) }
      \cup { Chars("clear"), Chars("setup ui-kit"), Chars("ui-kit"), Chars("hel"),
             Chars("shuriken help"), <<>> }

OneCommandInit ==
    /\ lines = InitialLines
    /\ currentInput \in CommandInputs
    /\ isProcessing = FALSE
    /\ commandHistory = <<>>
    /\ historyIndex = -1
    /\ tasks = <<>>
    /\ clock = 0

OneCommandNext ==
    \/ HandleKeyDown("Enter")
    \/ \E k \in 1..Len(tasks) : ProcessingTimer(k)
    \/ \E k \in 1..Len(tasks) : TypewriterFirstWord(k)
    \/ \E k \in 1..Len(tasks) : TypewriterTimer(k)

OneCommandSpec == OneCommandInit /\ [][OneCommandNext]_vars

\* ------------------------------------------------------------------------
\* Properties
\* ------------------------------------------------------------------------

LastLine == lines[Len(lines)]

LastCommand == commandHistory[Len(commandHistory)]

\* a submission has run to its end and the transcript has not been cleared
\* since
LastCommandDone ==
    /\ ~isProcessing
    /\ Len(commandHistory) >= 1
    /\ Len(lines) >= 2

\* the number of spaces of the string s
Spaces(s) == Cardinality({j \in 1..Len(s) : s[j] = " "})

\* content is the first k words of text joined by single spaces, a word being
\* a piece of text between two single spaces: the part of text before its k-th
\* space, or all of text when it has k - 1 spaces
IsFirstWords(content, text, k) ==
    /\ StartsWith(text, content)
    /\ Spaces(content) = k - 1
    /\ \/ Len(content) = Len(text)
       \/ text[Len(content) + 1] = " "

\* C1: while isProcessing is true, a press of Enter, whatever the input
\* buffer holds, adds no line to the transcript, clears nothing, starts no
\* command and leaves the history alone.
C1_EnterIgnoredWhileProcessing ==
    [][(isProcessing /\ HandleKeyDown("Enter"))
          => UNCHANGED <<lines, commandHistory, historyIndex, tasks, isProcessing>>]_vars

\* C1 witness: Enter can be pressed with a command in the input buffer in the
\* middle of a reveal (the press changes nothing, so this is also the state
\* after it).
C1_Witness ==
    /\ isProcessing
    /\ Trim(currentInput) # <<>>
    /\ Len(tasks) = 1
    /\ tasks[1].pc = "await"
    /\ tasks[1].i >= 2

\* C2: at most one executeCommand call, hence at most one reveal, is in flight,
\* and one is in flight exactly while isProcessing is true.
C2_AtMostOneReveal ==
    /\ Len(tasks) <= 1
    /\ isProcessing <=> (Len(tasks) = 1)

\* C2 witness: a reveal is in flight while the user has a second command ready
\* in the input buffer.
C2_Witness ==
    /\ Len(tasks) = 1
    /\ tasks[1].pc = "await"
    /\ MatchedCommand(currentInput) # 0
    /\ Len(commandHistory) < MaxHistory

\* C3: once the reveal of a matched command has completed, the transcript ends
\* with the Output line whose text is the entry's output, character for
\* character.
C3_RevealedTextIsOutput ==
    (/\ ~isProcessing
     /\ Len(commandHistory) >= 1
     /\ Len(lines) >= 2)
    => \A k \in 1..Len(DEMO_COMMANDS) :
          KeyMatches(Normalize(TrimmedCommand(LastCommand)), DEMO_COMMANDS[k].key)
          => /\ LastLine.type = "output"
             /\ LastLine.content = DEMO_COMMANDS[k].output

\* C3 witness: the reveal of help, whose output has runs of spaces and empty
\* lines, has completed.
C3_Witness ==
    /\ ~isProcessing
    /\ Len(commandHistory) = 1
    /\ LastLine.type = "output"
    /\ LastLine.content = HelpOutput
    /\ \E i \in 1..(Len(HelpOutput) - 1) : HelpOutput[i] = " " /\ HelpOutput[i + 1] = " "

RECURSIVE FoldFrom(_, _, _)
FoldFrom(s, started, pending) ==
    IF s = <<>> THEN <<>>
    ELSE IF IsSpace(Head(s)) THEN FoldFrom(Tail(s), started, started)
    ELSE (IF pending THEN <<" ">> ELSE <<>>) \o <<LowerChar(Head(s))>>
            \o FoldFrom(Tail(s), TRUE, FALSE)

Folded(command) == FoldFrom(command, FALSE, FALSE)

\* the text of the Input line of a command
InputText(command) == Chars("$ shuriken ") \o command

\* the text of the Error line of a command
ErrorText(command) ==
    <<"U+274C">> \o Chars(" Command not found: ") \o command
      \o Chars("\nType 'help' to see available commands.")

\* no trigger equals the folded command or is followed in it by a space
Unrecognized(command) ==
    LET folded == Folded(command)
    IN  \A k \in 1..Len(DEMO_COMMANDS) :
            /\ folded # DEMO_COMMANDS[k].key
            /\ ~StartsWith(folded, DEMO_COMMANDS[k].key \o <<" ">>)

\* C5: under fair scheduling of the timers every submission that set
\* isProcessing completes: its Output or Error line is the last line of the
\* transcript, no call is in flight and isProcessing is false again, which is
\* all the Enter branch asks of the next submission.
C5_SubmissionCompletes ==
    isProcessing ~> (/\ ~isProcessing
                     /\ tasks = <<>>
                     /\ LastLine.type \in {"output", "error"})

\* C5 witness: a second submission was accepted after the first had completed,
\* and has completed as well.
C5_Witness ==
    /\ ~isProcessing
    /\ Len(commandHistory) = 2
    /\ Len(lines) >= 4
    /\ LastLine.type = "error"
    /\ \E n \in 1..(Len(lines) - 1) : lines[n].type = "output"

\* C6: a command whose folded form equals a trigger is matched to that
\* trigger's entry, and once its reveal has completed the Output line holds that
\* entry's output.
C6_ExactMatchSelectsEntry ==
    /\ \A n \in 1..Len(tasks) : \A k \in 1..Len(DEMO_COMMANDS) :
          Folded(tasks[n].command) = DEMO_COMMANDS[k].key
          => tasks[n].matchedCommand = k
    /\ LastCommandDone
       => \A k \in 1..Len(DEMO_COMMANDS) :
             Folded(LastCommand) = DEMO_COMMANDS[k].key
             => LastLine = [type |-> "output",
                            content |-> DEMO_COMMANDS[k].output,
                            timestamp |-> LastLine.timestamp]

\* C6 witness: "ui-kit setup" typed in upper case, padded, with a tab and
\* spaces between its words, is being revealed as the second entry.
C6_Witness ==
    /\ Len(tasks) = 1
    /\ tasks[1].command = Chars(" \tUI-KIT \t SETUP  ")
    /\ tasks[1].matchedCommand = 2
    /\ tasks[1].pc = "await"

\* C7: a submitted command that is neither blank nor "clear" and that no
\* trigger matches gets no Output line: until its answer the transcript ends
\* with its Input line, and then with that Input line followed by one Error
\* line, which names the command as typed and says to type 'help'.
C7_UnrecognizedGetsErrorLine ==
    /\ \A n \in 1..Len(tasks) :
          Unrecognized(tasks[n].command)
          => /\ tasks[n].pc = "delay"
             /\ LastLine.type = "input"
             /\ LastLine.content = InputText(tasks[n].command)
    /\ (LastCommandDone /\ Unrecognized(LastCommand))
       => /\ LastLine.type = "error"
          /\ LastLine.content = ErrorText(LastCommand)
          /\ lines[Len(lines) - 1].type = "input"
          /\ lines[Len(lines) - 1].content = InputText(LastCommand)

\* C7 witness: " HelpMe" has been answered with its Error line.
C7_Witness ==
    /\ LastCommandDone
    /\ LastCommand = Chars(" HelpMe")
    /\ LastLine.type = "error"

\* C8: a command whose folded form is a trigger, a space and further text is
\* matched to that trigger's entry and its reveal ends with that entry's
\* output; a command that continues a trigger without a space is not matched to
\* that trigger.
C8_PrefixMatch ==
    /\ \A n \in 1..Len(tasks) : \A k \in 1..Len(DEMO_COMMANDS) :
          LET folded == Folded(tasks[n].command)
              key == DEMO_COMMANDS[k].key
          IN  /\ StartsWith(folded, key \o <<" ">>) => tasks[n].matchedCommand = k
              /\ (/\ StartsWith(folded, key)
                  /\ Len(folded) > Len(key)
                  /\ folded[Len(key) + 1] # " ")
                 => tasks[n].matchedCommand # k
    /\ LastCommandDone
       => \A k \in 1..Len(DEMO_COMMANDS) :
             StartsWith(Folded(LastCommand), DEMO_COMMANDS[k].key \o <<" ">>)
             => /\ LastLine.type = "output"
                /\ LastLine.content = DEMO_COMMANDS[k].output

\* C8 witness: the reveal of "ui-kit setup --verbose" has completed with the
\* output of "ui-kit setup".
C8_Witness ==
    /\ LastCommandDone
    /\ LastCommand = Chars("ui-kit setup --verbose")
    /\ LastLine.type = "output"
    /\ LastLine.content = UiKitSetupOutput

\* C10: Enter on an input buffer that is "clear" in any letter case, with any
\* whitespace around it, while not processing, leaves a transcript of exactly
\* one line, of kind info.
C10_ClearLeavesOneInfoLine ==
    [][(/\ ~isProcessing
        /\ Folded(currentInput) = Chars("clear")
        /\ HandleKeyDown("Enter"))
          => /\ Len(lines') = 1
             /\ lines'[1].type = "info"]_vars

\* C10 witness: the transcript of two submitted commands has been cleared.
C10_Witness ==
    /\ Len(lines) = 1
    /\ lines[1].type = "info"
    /\ lines[1].content = <<"U+1F977">> \o Chars(" Terminal cleared")
    /\ Len(commandHistory) >= 2

\* Enter is pressed on a buffer that is not blank while not processing and
\* the press is handled
Submits == ~isProcessing /\ Folded(currentInput) # <<>> /\ HandleKeyDown("Enter")

\* Submits, on "clear" in any letter case with any whitespace around it
SubmitsClear == Submits /\ Folded(currentInput) = Chars("clear")

\* Submits, on anything else
SubmitsCommand == Submits /\ Folded(currentInput) # Chars("clear")

\* C11: with n >= 1 entries, ArrowUp from the inactive cursor recalls the newest
\* entry, from index i > 0 the entry at i - 1, and from index 0 the oldest entry
\* again; so the k-th ArrowUp in a row after n submissions shows the k-th most
\* recent entry for k <= n and the oldest one for k > n.
C11_RecallPrevious ==
    [][(Len(commandHistory) >= 1 /\ HandleKeyDown("ArrowUp"))
          => LET n == Len(commandHistory)
             IN  /\ historyIndex = -1
                    => historyIndex' = n - 1 /\ currentInput' = commandHistory[n]
                 /\ historyIndex >= 1
                    => /\ historyIndex' = historyIndex - 1
                       /\ currentInput' = commandHistory[historyIndex]
                 /\ historyIndex = 0
                    => historyIndex' = 0 /\ currentInput' = commandHistory[1]]_vars

\* C11 witness: three commands, the first unlike the last, and the cursor has
\* been moved up to the oldest, which the input buffer shows.
C11_Witness ==
    /\ Len(commandHistory) = 3
    /\ commandHistory[1] # commandHistory[3]
    /\ historyIndex = 0
    /\ currentInput = commandHistory[1]

\* C12: ArrowDown with the cursor active at index i moves it to i + 1 and
\* shows that entry when there is one, and otherwise deactivates the cursor and
\* empties the input buffer.
C12_RecallNext ==
    [][(historyIndex > -1 /\ HandleKeyDown("ArrowDown"))
          => IF historyIndex + 1 < Len(commandHistory)
             THEN /\ historyIndex' = historyIndex + 1
                  /\ currentInput' = commandHistory[historyIndex + 2]
             ELSE /\ historyIndex' = -1
                  /\ currentInput' = <<>>]_vars

\* C12 witness: the cursor stands at the second of three entries, all
\* different, and the input buffer shows it.
C12_Witness ==
    /\ Len(commandHistory) = 3
    /\ Cardinality({commandHistory[n] : n \in 1..3}) = 3
    /\ historyIndex = 1
    /\ currentInput = commandHistory[2]

\* C13 as stated: every Enter on a non-blank buffer while not processing
\* appends the buffer to the history and leaves the cursor inactive.
C13_EverySubmissionRecorded ==
    [][Submits => /\ commandHistory' = Append(commandHistory, currentInput)
                  /\ historyIndex' = -1]_vars

\* C13: every submission other than "clear" appends the input buffer, exactly
\* as typed, as the newest history entry and leaves the cursor inactive; a
\* submitted "clear" leaves the history and the cursor as they are.
C13_CommandRecordedAsTyped ==
    [][/\ SubmitsCommand => /\ commandHistory' = Append(commandHistory, currentInput)
                            /\ historyIndex' = -1
       /\ SubmitsClear => UNCHANGED <<commandHistory, historyIndex>>]_vars

\* C13 witness: " HelpMe", with its leading space and capitals, is the newest
\* of two entries, and the cursor is inactive.
C13_Witness ==
    /\ Len(commandHistory) = 2
    /\ LastCommand = Chars(" HelpMe")
    /\ historyIndex = -1

\* C14: the history cursor is -1 or the index, counted from 0, of an entry of
\* the command history.
C14_CursorInRange ==
    \/ historyIndex = -1
    \/ historyIndex \in 0..(Len(commandHistory) - 1)

\* C14 witness: the cursor stands at the newest of three entries, all
\* answered.
C14_Witness ==
    /\ Len(commandHistory) = 3
    /\ historyIndex = 2
    /\ ~isProcessing

\* C15 as stated, in the states in which the input element is enabled:
\* whenever the cursor is active the input buffer is the entry under the cursor.
C15_BufferIsEntryUnderCursor ==
    (~isProcessing /\ historyIndex # -1) => currentInput = HistoryEntry(historyIndex)

\* C15: directly after a recall, ArrowUp or ArrowDown, that leaves the cursor
\* active, the input buffer is the entry under the cursor (typing, a suggestion
\* click or a submitted "clear" may change the buffer afterwards while the
\* cursor stays where it is).
C15_RecallShowsEntryUnderCursor ==
    [][((HandleKeyDown("ArrowUp") \/ HandleKeyDown("ArrowDown")) /\ historyIndex' # -1)
          => /\ historyIndex' \in 0..(Len(commandHistory') - 1)
             /\ currentInput' = commandHistory'[historyIndex' + 1]]_vars

\* C15 witness: after two commands, the second one recognized, the first has
\* been recalled and the input buffer shows it.
C15_Witness ==
    /\ ~isProcessing
    /\ Len(commandHistory) = 2
    /\ historyIndex = 0
    /\ currentInput = commandHistory[1]
    /\ LastLine.type = "output"

\* C16: from one state to the next the transcript gets no shorter, except in
\* the step that executes "clear".
C16_TranscriptGrows ==
    [][Len(lines') >= Len(lines) \/ SubmitsClear]_vars

\* C16 witness: three commands have been answered and nothing was cleared.
C16_Witness ==
    /\ Len(lines) = Len(InitialLines) + 6
    /\ ~isProcessing

\* C17 as stated: in a step that does not execute "clear", every line of the
\* transcript keeps its kind and its text.
C17_LinesNeverChange ==
    [][SubmitsClear
       \/ \A n \in 1..Len(lines) :
             /\ n <= Len(lines')
             /\ lines'[n].type = lines[n].type
             /\ lines'[n].content = lines[n].content]_vars

\* C17: in a step that does not execute "clear", every line keeps its kind
\* and its timestamp, and keeps its text unless it is the last line, an Output
\* line, and a command is being processed: the Output line of a reveal in
\* progress gets longer, its old text a prefix of its new text.
C17_LinesChangeOnlyInReveal ==
    [][SubmitsClear
       \/ \A n \in 1..Len(lines) :
             /\ n <= Len(lines')
             /\ lines'[n].type = lines[n].type
             /\ lines'[n].timestamp = lines[n].timestamp
             /\ \/ lines'[n].content = lines[n].content
                \/ /\ n = Len(lines)
                   /\ lines[n].type = "output"
                   /\ isProcessing
                   /\ StartsWith(lines'[n].content, lines[n].content)]_vars

\* C17 witness: a completed Output line stands, whole, in the middle of the
\* transcript while a later command is being revealed.
C17_Witness ==
    /\ isProcessing
    /\ LastLine.type = "output"
    /\ \E n \in 1..(Len(lines) - 1) :
          lines[n].type = "output" /\ lines[n].content = VersionOutput

\* C18 as stated: a call of executeCommand waits on a timer only in a reveal.
C18_TimerOnlyInReveal ==
    \A n \in 1..Len(tasks) :
        tasks[n].pc \in {"delay", "await"} => tasks[n].pc = "await"

\* C18: a command is being processed exactly while one call of
\* executeCommand waits: on the 500 ms timer that every submitted command,
\* recognized or not, waits on before it is answered, or in the reveal of a
\* recognized command after that. An unrecognized command waits on the 500 ms
\* timer alone.
C18_WaitsOnDelayThenReveal ==
    /\ isProcessing <=> tasks # <<>>
    /\ \A n \in 1..Len(tasks) :
          /\ tasks[n].pc \in {"delay", "loop", "await"}
          /\ tasks[n].pc = "delay" => LastLine.type = "input"
          /\ tasks[n].pc \in {"loop", "await"}
             => /\ ~Unrecognized(tasks[n].command)
                /\ LastLine.type = "output"

\* C18 witness: an unrecognized command waits on the 500 ms timer.
C18_Witness ==
    /\ isProcessing
    /\ Len(tasks) = 1
    /\ Unrecognized(tasks[1].command)
    /\ tasks[1].pc = "delay"

\* C19: the step that executes "clear" leaves one info line and nothing else:
\* no call of executeCommand goes on to a lookup, isProcessing stays false, and
\* the command history and the history cursor are unchanged.
C19_ClearIsNoCommand ==
    [][SubmitsClear
          => /\ Len(lines') = 1
             /\ lines'[1].type = "info"
             /\ ~isProcessing'
             /\ UNCHANGED <<isProcessing, commandHistory, historyIndex, tasks>>]_vars

\* C19 witness: "clear" was submitted with the cursor active; the cursor is
\* still active over the emptied input buffer.
C19_Witness ==
    /\ Len(lines) = 1
    /\ lines[1].type = "info"
    /\ historyIndex >= 0
    /\ currentInput = <<>>
    /\ ~isProcessing

\* the strings the user enters, by typing or by a click on a suggestion
EnteredInputs == TypedInputs \cup ClickedSuggestions

\* C20: the text of every Input line is "$ shuriken " and a command exactly as
\* entered, and every Error line follows the Input line of its command and
\* names that command exactly as entered; while a command is processed or has
\* just been answered, the Input line is that of the newest history entry.
C20_TextAsTyped ==
    /\ \A n \in 1..Len(lines) :
          /\ lines[n].type = "input"
             => \E c \in EnteredInputs : lines[n].content = InputText(c)
          /\ lines[n].type = "error"
             => /\ n > 1
                /\ lines[n - 1].type = "input"
                /\ \E c \in EnteredInputs :
                      /\ lines[n - 1].content = InputText(c)
                      /\ lines[n].content = ErrorText(c)
    /\ \A n \in 1..Len(tasks) :
          tasks[n].pc = "delay" => LastLine.content = InputText(LastCommand)

\* C20 witness: "clear  Now", with its two spaces and its capital, stands in
\* its Input line and in its Error line.
C20_Witness ==
    \E n \in 2..Len(lines) :
        /\ lines[n].type = "error"
        /\ lines[n].content = ErrorText(Chars("clear  Now"))
        /\ lines[n - 1].content = Chars("$ shuriken clear  Now")

\* C21: ArrowUp with an empty history, and ArrowDown with the cursor inactive,
\* change nothing: the cursor, the input buffer, the history and the
\* transcript are what they were.
C21_RecallNoOp ==
    [][(\/ Len(commandHistory) = 0 /\ HandleKeyDown("ArrowUp")
        \/ historyIndex = -1 /\ HandleKeyDown("ArrowDown"))
          => UNCHANGED <<historyIndex, currentInput, commandHistory, lines>>]_vars

\* C21 witness: two commands have been answered, the cursor is inactive and
\* the input buffer holds typed text, which ArrowDown would have to leave alone.
C21_Witness ==
    /\ ~isProcessing
    /\ Len(commandHistory) = 2
    /\ historyIndex = -1
    /\ currentInput = Chars(" HelpMe")
    /\ LastLine.type \in {"output", "error"}

\* the entries of the table whose trigger the folded command equals or goes on
\* from after a space, as a set of indices
Recognizing(command) ==
    {k \in 1..Len(DEMO_COMMANDS) :
        \/ Folded(command) = DEMO_COMMANDS[k].key
        \/ StartsWith(Folded(command), DEMO_COMMANDS[k].key \o <<" ">>)}

\* for every string the user enters: its Input line, its Error line, and the
\* entries it is recognized for
Transcribed ==
    { [input |-> InputText(c), error |-> ErrorText(c), entries |-> Recognizing(c)] :
        c \in EnteredInputs }

\* C22: the step that submits a command other than "clear" appends its Input
\* line as the last line, appends the command to the history and sets
\* isProcessing, and adds no Output or Error line; and in every state each
\* Output or Error line directly follows the Input line of its own command: an
\* Error line names the command of that Input line, an Output line holds the
\* beginning of the output that command is recognized for.
C22_InputLineFirst ==
    [][/\ SubmitsCommand
          => /\ Len(lines') = Len(lines) + 1
             /\ SubSeq(lines', 1, Len(lines)) = lines
             /\ lines'[Len(lines')].type = "input"
             /\ lines'[Len(lines')].content = InputText(currentInput)
             /\ Len(commandHistory') = Len(commandHistory) + 1
             /\ ~isProcessing /\ isProcessing'
       /\ \A n \in 1..Len(lines) :
             lines[n].type \in {"output", "error"}
             => /\ n > 1
                /\ lines[n - 1].type = "input"
                /\ \E c \in Transcribed :
                      /\ lines[n - 1].content = c.input
                      /\ IF lines[n].type = "error"
                         THEN /\ c.entries = {}
                              /\ lines[n].content = c.error
                         ELSE \E k \in c.entries :
                                 StartsWith(DEMO_COMMANDS[k].output, lines[n].content)]_vars

\* C22 witness: the Input line of a second command stands last, after the
\* Input and Output lines of the first, while the second waits for its answer.
C22_Witness ==
    /\ isProcessing
    /\ Len(lines) = Len(InitialLines) + 3
    /\ lines[Len(lines) - 2].type = "input"
    /\ lines[Len(lines) - 1].type = "output"
    /\ LastLine.type = "input"
    /\ Len(commandHistory) = 2

\* C23: while a reveal is in progress the last line of the transcript is the
\* Output line of that reveal, with the reveal's timestamp, and its text is the
\* beginning of the matched entry's output; a step taken meanwhile adds and
\* removes no line, changes no line but the last, and leaves the last an Output
\* line whose text starts with its old text and is again the beginning of the
\* output.
C23_LastLineIsRevealed ==
    [][\A n \in 1..Len(tasks) :
          tasks[n].pc \in {"loop", "await"}
          => LET output == DEMO_COMMANDS[tasks[n].matchedCommand].output
                 last == Len(lines)
             IN  /\ last >= 1
                 /\ lines[last].type = "output"
                 /\ lines[last].timestamp = tasks[n].timestamp
                 /\ StartsWith(output, lines[last].content)
                 /\ Len(lines') = last
                 /\ SubSeq(lines', 1, last - 1) = SubSeq(lines, 1, last - 1)
                 /\ lines'[last].type = "output"
                 /\ lines'[last].timestamp = lines[last].timestamp
                 /\ StartsWith(lines'[last].content, lines[last].content)
                 /\ StartsWith(output, lines'[last].content)]_vars

\* C23 witness: in the middle of a reveal the user has typed a command into
\* the input buffer (Enter on it is refused), and the last line holds the words
\* revealed so far.
C23_Witness ==
    /\ Len(tasks) = 1
    /\ tasks[1].pc = "await"
    /\ tasks[1].i >= 1
    /\ currentInput = Chars("clear  Now")
    /\ LastLine.type = "output"
    /\ LastLine.content = tasks[1].currentText
    /\ Len(LastLine.content) < Len(DEMO_COMMANDS[tasks[1].matchedCommand].output)

\* the entries in the opposite declaration order
Reversed(entries) == [k \in 1..Len(entries) |-> entries[Len(entries) + 1 - k]]

\* the triggers the predicate of find accepts for a command, as indices
MatchingKeys(command) ==
    {k \in 1..Len(DEMO_COMMANDS) :
        KeyMatches(Normalize(TrimmedCommand(command)), DEMO_COMMANDS[k].key)}

\* C24: no trigger of the table is matched by another trigger, which leaves no
\* normalized input that two triggers match; every command typed or in flight
\* is matched by at most one trigger, and find selects the same entry, or
\* none, when the table is searched in the opposite order.
C24_AtMostOneTrigger ==
    /\ \A j, k \in 1..Len(DEMO_COMMANDS) :
          j # k => ~KeyMatches(Normalize(DEMO_COMMANDS[j].key), DEMO_COMMANDS[k].key)
    /\ \A command \in {currentInput} \cup {tasks[n].command : n \in 1..Len(tasks)} :
          LET normalizedCommand == Normalize(TrimmedCommand(command))
              k == FindCommand(DEMO_COMMANDS, normalizedCommand)
              r == FindCommand(Reversed(DEMO_COMMANDS), normalizedCommand)
          IN  /\ Cardinality(MatchingKeys(command)) <= 1
              /\ (k = 0) <=> (r = 0)
              /\ k # 0 => Reversed(DEMO_COMMANDS)[r] = DEMO_COMMANDS[k]
    /\ \A n \in 1..Len(tasks) :
          tasks[n].matchedCommand = FindCommand(DEMO_COMMANDS,
                                        Normalize(TrimmedCommand(tasks[n].command)))

\* C24 witness: "jarvis component button --verbose", three words of trigger and
\* one more, is in flight, matched by the third trigger alone.
C24_Witness ==
    /\ Len(tasks) = 1
    /\ tasks[1].command = Chars("jarvis component button --verbose")
    /\ MatchingKeys(tasks[1].command) = {3}
    /\ tasks[1].matchedCommand = 3

\* C25: from one state to the next the command history keeps every entry it
\* has, in its place and as it was entered: its old value is the beginning of
\* its new value, and so it never gets shorter.
C25_HistoryAppendOnly ==
    [][/\ Len(commandHistory') >= Len(commandHistory)
       /\ SubSeq(commandHistory', 1, Len(commandHistory)) = commandHistory]_vars

\* C25 witness: two commands were entered, the transcript was cleared, and a
\* third command, now being revealed, stands in the history after the two.
C25_Witness ==
    /\ Len(commandHistory) = 3
    /\ commandHistory[1] # commandHistory[3]
    /\ Len(lines) = 3
    /\ lines[1].content = <<"U+1F977">> \o Chars(" Terminal cleared")
    /\ LastLine.type = "output"
    /\ isProcessing
    /\ historyIndex = -1

\* C26: Enter on an input buffer that is empty or holds whitespace only
\* changes nothing: the transcript, the history, the cursor, the processing
\* flag, the calls in flight and the input buffer itself stay as they are.
C26_BlankEnterNoOp ==
    [][(Folded(currentInput) = <<>> /\ HandleKeyDown("Enter"))
          => UNCHANGED <<lines, commandHistory, historyIndex, isProcessing,
                         tasks, currentInput>>]_vars

\* C26 witness: after an answered command the input buffer holds two spaces
\* and the cursor is active; Enter leaves all of it as it is.
C26_Witness ==
    /\ ~isProcessing
    /\ currentInput = Chars("  ")
    /\ Len(commandHistory) >= 1
    /\ historyIndex >= 0
    /\ LastLine.type \in {"output", "error"}

\* C27: a step of ArrowUp or of ArrowDown leaves the transcript, the command
\* history, the processing flag and the calls in flight unchanged; the cursor
\* and the input buffer are all it may change.
C27_RecallFrame ==
    [][(HandleKeyDown("ArrowUp") \/ HandleKeyDown("ArrowDown"))
          => UNCHANGED <<lines, commandHistory, isProcessing, tasks>>]_vars

\* C27 witness: two commands have been answered and the newest has been
\* recalled; the transcript holds the four lines of the two commands.
C27_Witness ==
    /\ ~isProcessing
    /\ tasks = <<>>
    /\ Len(commandHistory) = 2
    /\ historyIndex = 1
    /\ currentInput = commandHistory[2]
    /\ Len(lines) = Len(InitialLines) + 4

\* C28: a command whose folded form is "clear", a space and further text is
\* not a clear: the step that submits it keeps every line of the transcript and
\* appends its Input line, appends it to the history as typed and sets
\* isProcessing; it is recognized by no trigger, and once it has been answered
\* the transcript ends with its Input line and its Command-not-found Error line.
C28_ClearWithTextIsCommand ==
    [][/\ (Submits /\ StartsWith(Folded(currentInput), Chars("clear ")))
          => /\ lines' = Append(lines, [type |-> "input",
                                        content |-> InputText(currentInput),
                                        timestamp |-> lines'[Len(lines')].timestamp])
             /\ commandHistory' = Append(commandHistory, currentInput)
             /\ isProcessing'
             /\ Len(tasks') = 1
             /\ tasks'[1].matchedCommand = 0
       /\ (LastCommandDone /\ StartsWith(Folded(LastCommand), Chars("clear ")))
          => /\ LastLine.type = "error"
             /\ LastLine.content = ErrorText(LastCommand)
             /\ lines[Len(lines) - 1].type = "input"
             /\ lines[Len(lines) - 1].content = InputText(LastCommand)]_vars

\* C28 witness: "clear  Now" was submitted second, the transcript still holds
\* the lines of the first command, and its Error line has been added.
C28_Witness ==
    /\ LastCommandDone
    /\ Len(commandHistory) = 2
    /\ LastCommand = Chars("clear  Now")
    /\ Len(lines) = Len(InitialLines) + 4
    /\ LastLine.type = "error"
    /\ LastLine.content = ErrorText(Chars("clear  Now"))

\* C29: the step of Enter that submits the input buffer, a command or "clear",
\* leaves the input buffer empty.
C29_SubmitEmptiesBuffer ==
    [][Submits => currentInput' = <<>>]_vars

\* C29 witness: " HelpMe" has just been submitted: its Input line stands last,
\* its answer is awaited, and the input buffer is empty.
C29_Witness ==
    /\ isProcessing
    /\ Len(tasks) = 1
    /\ tasks[1].pc = "delay"
    /\ LastLine.content = InputText(Chars(" HelpMe"))
    /\ currentInput = <<>>

\* C30: a click on a suggestion while no command is processed makes the
\* suggestion's text the input buffer, and while one is processed leaves the
\* input buffer as it is; either way it submits nothing and leaves the
\* transcript, the history, the cursor, the processing flag and the calls in
\* flight unchanged.
C30_SuggestionClickFillsBuffer ==
    [][\A n \in 1..Len(SUGGESTIONS) :
          HandleSuggestionClick(SUGGESTIONS[n])
          => /\ ~isProcessing => currentInput' = SUGGESTIONS[n]
             /\ isProcessing => currentInput' = currentInput
             /\ UNCHANGED <<lines, commandHistory, historyIndex, isProcessing,
                            tasks>>]_vars

\* C30 witness: with a command answered and its entry recalled, "version" has
\* been clicked into the input buffer; nothing has been submitted, and the
\* cursor still stands on the entry.
C30_Witness ==
    /\ ~isProcessing
    /\ tasks = <<>>
    /\ Len(commandHistory) = 1
    /\ commandHistory[1] # Chars("version")
    /\ historyIndex = 0
    /\ currentInput = Chars("version")
    /\ Len(lines) = Len(InitialLines) + 2

====
